---------------------------- MODULE Spec2Model ----------------------------
(***************************************************************************)
(* A model of crio-df.py, the CRI-O storage disk usage reporter            *)
(* (src/ansible/roles/common/tasks/files/crio-df.py).                      *)
(*                                                                         *)
(* The program reads a snapshot of the store (images.json, layers.json,    *)
(* volatile-layers.json and one optional manifest file per image), walks   *)
(* each image's layer chain, counts how many images use each layer, and    *)
(* reports total, shared, unique and reclaimable bytes, plus compressed    *)
(* sizes taken from the manifests.                                         *)
(*                                                                         *)
(* The specifications are stated over the same variables:                  *)
(*   SpecWalk        walk_image_layers, one loop iteration per step;       *)
(*   Spec            main: the uncompressed accounting, then the call of   *)
(*                   get_compressed_sizes;                                 *)
(*   SpecCompressed  get_compressed_sizes on its own, over a wider set     *)
(*                   of manifest files;                                    *)
(*   SpecSnapshot    main on snapshots whose layers and manifests vary     *)
(*                   together;                                             *)
(*   SpecTie         main on longer image lists over two top layers;       *)
(*   SpecDisplay     get_image_display_name on one image.                  *)
(***************************************************************************)
EXTENDS Integers, Sequences, FiniteSets, TLC

VARIABLES
    pc,                   \* position of the program
    images,               \* load_json_file(IMAGES_JSON): sequence of image records
    layers,               \* load_json_file(LAYERS_JSON): sequence of layer records
    volatile_layers,      \* load_json_file(VOLATILE_LAYERS_JSON)
    manifests,            \* the manifest file of each image id, as found on disk
    layers_by_id,         \* main: layer id -> layer record
    layer_count,          \* main: layer id -> number of walked chains holding it
    image_layers,         \* main: image id -> walked chain
    total_size,           \* main
    layer_to_image,       \* main: top layer -> image id
    containers_per_image, \* main: image id -> number of volatile layers
    image_data,           \* main: one report row per image record
    contrib,              \* history: per row, the layer ids added to shared_size and to unique_size
    total_reclaimable,    \* main
    reclaimable_pct,      \* main: [num, den], the quotient total_reclaimable * 100 / total_size
    comp,                 \* the four results of get_compressed_sizes
    comp_deduplicated,    \* main: sum(comp_layers.values())
    error,                \* the exception that ended the program, or None
    walk,                 \* walk_image_layers: its locals layer_id, visited, layers_walked
    display               \* get_image_display_name: the pair (repository, tag) it returns

inputs   == <<images, layers, volatile_layers, manifests>>
mainvars == <<layers_by_id, layer_count, image_layers, total_size, layer_to_image,
              containers_per_image, image_data, contrib, total_reclaimable,
              reclaimable_pct>>
compvars == <<comp, comp_deduplicated>>
vars     == <<pc, inputs, mainvars, compvars, error, walk, display>>

-----------------------------------------------------------------------------
(* Values *)

\* Python's None: an absent key read with .get(), or a JSON null.
None == "None"

\* JSON values other than ids: a number, a null, a string, or a key the object
\* does not hold.
JNum(n) == [t |-> "num", v |-> n]
JNull   == [t |-> "null"]
JStr    == [t |-> "str"]
JAbsent == [t |-> "absent"]

\* A "digest" key that a manifest entry does not hold: .get("digest", "") then
\* gives "", while a JSON null gives None, a dictionary key of its own.
NoKey == "<absent>"

\* Python truthiness of an id: None and the empty string are false.
Truthy(x) == x # None /\ x # ""

\* The layer ids and image ids the inputs are drawn from.
LayerIds == {"A", "B", "C"}
ImageIds == {"i1", "i2"}
Digests  == {"sha256:d1", "sha256:d2"}

EmptyMap == [x \in {} |-> 0]

\* f with f[k] set to v, k added to its keys when new
Put(f, k, v) == [x \in DOMAIN f \cup {k} |-> IF x = k THEN v ELSE f[x]]

\* Bounds of the inputs.
MaxLayers   == 3   \* records in layers.json (SpecWalk)
MaxImages   == 2   \* records in images.json
MaxVolatile == 1   \* records in volatile-layers.json
MaxEntries  == 2   \* entries of one manifest's layers list
MaxTied     == 3   \* records in images.json (SpecTie)
MaxName     == 6   \* symbols of an image name (SpecDisplay)

BoundedSeq(S, n) == UNION {[1..k -> S] : k \in 0..n}

Range(s) == {s[k] : k \in DOMAIN s}

RECURSIVE SumSet(_, _)
\* sum of f[x] over the set S
SumSet(f, S) ==
    IF S = {} THEN 0
    ELSE LET x == CHOOSE y \in S : TRUE IN f[x] + SumSet(f, S \ {x})

RECURSIVE SumSeq(_)
SumSeq(s) == IF s = <<>> THEN 0 ELSE Head(s) + SumSeq(Tail(s))

\* number of positions of s holding x
Occurrences(s, x) == Cardinality({k \in DOMAIN s : s[k] = x})

NoDuplicates(s) == \A j, k \in DOMAIN s : s[j] = s[k] => j = k

-----------------------------------------------------------------------------
(* walk_image_layers *)

\* locals at entry: layers_walked = [], visited = set(), layer_id = image.get("layer")
WalkInit(image) ==
    [layer_id |-> image.layer, visited |-> {}, layers_walked |-> <<>>, broke |-> FALSE]

\* mutant: the while condition without the visited test
WalkCond_NoVisited(w) == ~w.broke /\ Truthy(w.layer_id)

\* the while condition: layer_id and layer_id not in visited (and no break yet)
WalkCond(w) == ~w.broke /\ Truthy(w.layer_id) /\ w.layer_id \notin w.visited

\* mutant: the loop body appends the id before it looks the layer up
WalkBody_AppendsFirst(w, lbi) ==
    IF w.layer_id \notin DOMAIN lbi
    THEN [w EXCEPT !.visited = @ \cup {w.layer_id},
                   !.layers_walked = Append(@, w.layer_id),
                   !.broke = TRUE]
    ELSE [w EXCEPT !.visited = @ \cup {w.layer_id},
                   !.layers_walked = Append(@, w.layer_id),
                   !.layer_id = lbi[w.layer_id].parent]

\* one iteration of the loop body
WalkBody(w, lbi) ==
    IF w.layer_id \notin DOMAIN lbi
    THEN [w EXCEPT !.visited = @ \cup {w.layer_id}, !.broke = TRUE]
    ELSE [w EXCEPT !.visited = @ \cup {w.layer_id},
                   !.layers_walked = Append(@, w.layer_id),
                   !.layer_id = lbi[w.layer_id].parent]

RECURSIVE WalkLoop(_, _)
WalkLoop(w, lbi) == IF WalkCond(w) THEN WalkLoop(WalkBody(w, lbi), lbi) ELSE w

walk_image_layers(image, lbi) == WalkLoop(WalkInit(image), lbi).layers_walked

-----------------------------------------------------------------------------
(* main: the uncompressed accounting *)

\* layers_by_id = {layer["id"]: layer for layer in layers}: the last record of an id wins
LayersById(ls) ==
    [id \in {ls[k].id : k \in DOMAIN ls} |->
        ls[CHOOSE k \in DOMAIN ls :
              ls[k].id = id /\ \A j \in DOMAIN ls : ls[j].id = id => j <= k]]

\* size = diff_size if diff_size is not None else (layer.get("uncompress_size", 0) or 0)
LayerSize(layer) ==
    IF layer.diff_size.t = "num" THEN layer.diff_size.v
    ELSE IF layer.uncompress_size.t = "num" THEN layer.uncompress_size.v
    ELSE 0

\* walked_layers of each pass of the loop over the images
WalkedLayers(imgs, lbi) == [k \in DOMAIN imgs |-> walk_image_layers(imgs[k], lbi)]

\* image_layers[image_id] = walked_layers, for each image in turn: the last record of an id wins
ImageLayers(imgs, walked) ==
    [id \in {imgs[k].id : k \in DOMAIN imgs} |->
        walked[CHOOSE k \in DOMAIN imgs :
                  imgs[k].id = id /\ \A j \in DOMAIN imgs : imgs[j].id = id => j <= k]]

\* mutant: a layer is counted once for each distinct chain that holds it
LayerCount_PerDistinctChain(walked) ==
    [l \in UNION {Range(walked[k]) : k \in DOMAIN walked} |->
        Cardinality({walked[k] : k \in {j \in DOMAIN walked : l \in Range(walked[j])}})]

\* layer_count[layer_id] += 1 for each layer_id of each image's walked_layers
LayerCount(walked) ==
    [l \in UNION {Range(walked[k]) : k \in DOMAIN walked} |->
        SumSeq([k \in DOMAIN walked |-> Occurrences(walked[k], l)])]

\* mutant: total_size adds a layer's size once per image that holds it
TotalSize_PerReference(lc, lbi) ==
    SumSet([l \in DOMAIN lc |-> lc[l] * LayerSize(lbi[l])], DOMAIN lc)

\* total_size: the size of each key of layer_count, added once
TotalSize(lc, lbi) ==
    SumSet([l \in DOMAIN lc |-> LayerSize(lbi[l])], DOMAIN lc)

\* layer_to_image[img.get("layer")] = img["id"], for each image in turn
LayerToImage(imgs) ==
    [t \in {imgs[k].layer : k \in DOMAIN imgs} |->
        imgs[CHOOSE k \in DOMAIN imgs :
                imgs[k].layer = t /\ \A j \in DOMAIN imgs : imgs[j].layer = t => j <= k].id]

\* containers_per_image[layer_to_image[parent]] += 1 for each volatile layer whose
\* parent is a key of layer_to_image
ContainersPerImage(vols, lti) ==
    LET hit == {k \in DOMAIN vols : vols[k].parent \in DOMAIN lti}
    IN [id \in {lti[vols[k].parent] : k \in hit} |->
           Cardinality({k \in hit : lti[vols[k].parent] = id})]

\* the layer ids of a chain whose size the per-image loop adds to shared_size
SharedIds(chain, lc) == SelectSeq(chain, LAMBDA l : lc[l] > 1)

\* the layer ids of a chain whose size the per-image loop adds to unique_size
UniqueIds(chain, lc) == SelectSeq(chain, LAMBDA l : ~(lc[l] > 1))

SizesOf(ids, lbi) == [k \in DOMAIN ids |-> LayerSize(lbi[ids[k]])]

\* mutant: image_size leaves the shared bytes out
ImageSize_UniqueOnly(shared_size, unique_size) == unique_size

\* image_size = shared_size + unique_size
ImageSize(shared_size, unique_size) == shared_size + unique_size

\* mutant: "reclaimable" is unique_size whatever the container count
Reclaimable_IgnoresContainers(unique_size, container_count) == unique_size

\* "reclaimable": unique_size if container_count == 0 else 0
Reclaimable(unique_size, container_count) ==
    IF container_count = 0 THEN unique_size ELSE 0

\* the row image_data.append({...}) adds for one image record, without its
\* repository, tag and created columns; "id" is image_id[:12], which is the
\* whole id for the ids of ImageIds
ImageRow(image, il, lc, lbi, cpi) ==
    LET walked_layers == il[image.id]
        shared_size == SumSeq(SizesOf(SharedIds(walked_layers, lc), lbi))
        unique_size == SumSeq(SizesOf(UniqueIds(walked_layers, lc), lbi))
        container_count == IF image.id \in DOMAIN cpi THEN cpi[image.id] ELSE 0
    IN [id          |-> image.id,
        size        |-> ImageSize(shared_size, unique_size),
        shared_size |-> shared_size,
        unique_size |-> unique_size,
        containers  |-> container_count,
        reclaimable |-> Reclaimable(unique_size, container_count)]

\* total_reclaimable += unique_size for each image with container_count == 0
TotalReclaimable(rows) ==
    SumSeq([k \in DOMAIN rows |->
               IF rows[k].containers = 0 THEN rows[k].unique_size ELSE 0])

\* mutant: the quotient is formed whatever total_size is
ReclaimablePct_NoGuard(tr, ts) == [num |-> tr * 100, den |-> ts]

\* reclaimable_pct = (total_reclaimable / total_size * 100) if total_size > 0 else 0,
\* kept as the exact quotient num / den
ReclaimablePct(tr, ts) ==
    IF ts > 0 THEN [num |-> tr * 100, den |-> ts] ELSE [num |-> 0, den |-> 1]

-----------------------------------------------------------------------------
(* get_image_display_name *)

\* A name is a sequence of symbols: the characters the function looks for
\* ("@", ":", "/"), the word "sha256", and "a" for any other character. The
\* words the function supplies are one symbol each, which no name holds.
NameChars == {"a", ":", "/", "@", "sha256"}
Latest    == <<"latest">>
NoName    == <<"<none>">>

\* display before the function has returned
NoDisplay == <<<<>>, <<>>>>

\* the literal "@sha256:"
DigestMark == <<"@", "sha256", ":">>

\* sub in s, for two strings
Contains(s, sub) ==
    \E i \in 0..(Len(s) - Len(sub)) : SubSeq(s, i + 1, i + Len(sub)) = sub

\* s.split(c)[0]: s up to its first c, all of s when it holds no c
BeforeFirst(s, c) ==
    IF c \notin Range(s) THEN s
    ELSE SubSeq(s, 1, (CHOOSE i \in DOMAIN s :
                          s[i] = c /\ \A j \in 1..(i - 1) : s[j] # c) - 1)

\* mutant: the digest reference stays in the name
StripDigest_Keeps(name) == name

\* if "@sha256:" in name: name = name.split("@")[0]
StripDigest(name) ==
    IF Contains(name, DigestMark) THEN BeforeFirst(name, "@") ELSE name

\* mutant: name.split(":", 1), the split on the first colon
RSplitColon_First(name) ==
    LET c == CHOOSE i \in DOMAIN name :
                 name[i] = ":" /\ \A j \in 1..(i - 1) : name[j] # ":"
    IN <<SubSeq(name, 1, c - 1), SubSeq(name, c + 1, Len(name))>>

\* name.rsplit(":", 1) of a name that holds a colon: the split on the last colon
RSplitColon(name) ==
    LET c == CHOOSE i \in DOMAIN name :
                 name[i] = ":" /\ \A j \in (i + 1)..Len(name) : name[j] # ":"
    IN <<SubSeq(name, 1, c - 1), SubSeq(name, c + 1, Len(name))>>

\* the pair (repository, tag); an image without "names" has the empty list
get_image_display_name(image) ==
    IF image.names = <<>> THEN <<NoName, NoName>>
    ELSE LET name == StripDigest(image.names[1])
         IN IF ":" \in Range(name)
            THEN LET parts == RSplitColon(name)
                 IN IF "/" \in Range(parts[2]) THEN <<name, Latest>>
                    ELSE <<parts[1], parts[2]>>
            ELSE <<name, Latest>>

-----------------------------------------------------------------------------
(* get_compressed_sizes *)

\* What is found at os.path.join(IMAGES_DIR, image_id, "manifest"):
\*   "missing"  no such file;
\*   "invalid"  a file that is not JSON (load_json_file returns []);
\*   "falsy"    JSON that Python holds false: {}, [], null, 0, "";
\*   "array"    a JSON array with elements;
\*   "object"   a JSON object with members, its "layers" member being absent,
\*              null, or a list of entries.
\* An entry is a JSON string, or an object with a size and a digest: a string,
\* None for a JSON null, NoKey for an entry without the key.

\* mutant: all_layers keeps the first size written for a digest
EntryStep_FirstWriteWins(st, entry) ==
    IF entry.t # "object"
    THEN [st EXCEPT !.error = "AttributeError"]
    ELSE LET digest == IF entry.digest = NoKey THEN "" ELSE entry.digest
             size == IF entry.size.t = "absent" THEN JNum(0) ELSE entry.size
         IN IF size.t # "num"
            THEN [st EXCEPT !.error = "TypeError"]
            ELSE [st EXCEPT
                    !.image_compressed = @ + size.v,
                    !.image_layers = Append(@, [digest |-> digest, size |-> size.v]),
                    !.all_layers = IF digest \in DOMAIN @ THEN @ ELSE Put(@, digest, size.v),
                    !.layer_usage = Put(@, digest,
                                        (IF digest \in DOMAIN @ THEN @[digest] ELSE 0) + 1)]

\* mutant: all_layers adds up the sizes written for a digest
EntryStep_AddsUp(st, entry) ==
    IF entry.t # "object"
    THEN [st EXCEPT !.error = "AttributeError"]
    ELSE LET digest == IF entry.digest = NoKey THEN "" ELSE entry.digest
             size == IF entry.size.t = "absent" THEN JNum(0) ELSE entry.size
         IN IF size.t # "num"
            THEN [st EXCEPT !.error = "TypeError"]
            ELSE [st EXCEPT
                    !.image_compressed = @ + size.v,
                    !.image_layers = Append(@, [digest |-> digest, size |-> size.v]),
                    !.all_layers = Put(@, digest,
                                       (IF digest \in DOMAIN @ THEN @[digest] ELSE 0) + size.v),
                    !.layer_usage = Put(@, digest,
                                        (IF digest \in DOMAIN @ THEN @[digest] ELSE 0) + 1)]

\* one pass of the loop over the manifest's layers
EntryStep(st, entry) ==
    IF entry.t # "object"
    THEN [st EXCEPT !.error = "AttributeError"]       \* layer.get on a str
    ELSE LET digest == IF entry.digest = NoKey THEN "" ELSE entry.digest
             size == IF entry.size.t = "absent" THEN JNum(0) ELSE entry.size
         IN IF size.t # "num"
            THEN [st EXCEPT !.error = "TypeError"]    \* image_compressed += size
            ELSE [st EXCEPT
                    !.image_compressed = @ + size.v,
                    !.image_layers = Append(@, [digest |-> digest, size |-> size.v]),
                    !.all_layers = Put(@, digest, size.v),
                    !.layer_usage = Put(@, digest,
                                        (IF digest \in DOMAIN @ THEN @[digest] ELSE 0) + 1)]

RECURSIVE EntryLoop(_, _)
EntryLoop(st, entries) ==
    IF entries = <<>> \/ st.error # None THEN st
    ELSE EntryLoop(EntryStep(st, Head(entries)), Tail(entries))

\* one pass of the loop over the images (the row's "id" is image_id[:12], the
\* whole id for the ids of ImageIds; its "name" column is left out)
ManifestStep(acc, image, files) ==
    LET manifest == files[image.id]
    IN IF manifest.kind = "missing" THEN acc                      \* not os.path.exists
       ELSE IF manifest.kind \in {"invalid", "falsy"} THEN acc    \* not manifest
       ELSE IF manifest.kind = "array"
       THEN [acc EXCEPT !.error = "AttributeError"]               \* manifest.get on a list
       ELSE IF manifest.layers.t = "null"
       THEN [acc EXCEPT !.error = "TypeError"]                    \* for layer in None
       ELSE LET entries == IF manifest.layers.t = "absent" THEN <<>> ELSE manifest.layers.v
                st == EntryLoop([image_compressed |-> 0, image_layers |-> <<>>,
                                 all_layers |-> acc.all_layers,
                                 layer_usage |-> acc.layer_usage,
                                 error |-> None], entries)
            IN IF st.error # None THEN [acc EXCEPT !.error = st.error]
               ELSE [all_layers  |-> st.all_layers,
                     layer_usage |-> st.layer_usage,
                     per_image   |-> Append(acc.per_image,
                                            [id |-> image.id,
                                             compressed |-> st.image_compressed,
                                             layers |-> st.image_layers]),
                     error       |-> None]

RECURSIVE ManifestLoop(_, _, _)
ManifestLoop(acc, imgs, files) ==
    IF imgs = <<>> \/ acc.error # None THEN acc
    ELSE ManifestLoop(ManifestStep(acc, Head(imgs), files), Tail(imgs), files)

\* shared_digests = {d for d, c in layer_usage.items() if c > 1}
SharedDigests(layer_usage) == {d \in DOMAIN layer_usage : layer_usage[d] > 1}

\* the function's results, or the exception that leaves it (error)
get_compressed_sizes(imgs, files) ==
    LET acc == ManifestLoop([all_layers |-> EmptyMap, layer_usage |-> EmptyMap,
                             per_image |-> <<>>, error |-> None], imgs, files)
    IN [all_layers     |-> acc.all_layers,
        layer_usage    |-> acc.layer_usage,
        shared_digests |-> SharedDigests(acc.layer_usage),
        per_image      |-> acc.per_image,
        error          |-> acc.error]

NoComp == [all_layers |-> EmptyMap, layer_usage |-> EmptyMap,
           shared_digests |-> {}, per_image |-> <<>>]

-----------------------------------------------------------------------------
(* The program *)

\* main, after the load, when images is empty: prints and returns
MainNoImages ==
    /\ pc = "start"
    /\ images = <<>>
    /\ pc' = "no_images"
    /\ UNCHANGED <<inputs, mainvars, compvars, error, walk, display>>

\* main, from the lookup map to reclaimable_pct (each local is evaluated once)
Main ==
    /\ pc = "start"
    /\ images # <<>>
    /\ \E lbi \in {LayersById(layers)} :
       \E wl \in {WalkedLayers(images, lbi)} :
       \E il \in {ImageLayers(images, wl)} :
       \E lc \in {LayerCount(wl)} :
       \E lti \in {LayerToImage(images)} :
       \E cpi \in {ContainersPerImage(volatile_layers, lti)} :
       \E rows \in {[k \in DOMAIN images |-> ImageRow(images[k], il, lc, lbi, cpi)]} :
       \E tr \in {TotalReclaimable(rows)} :
       \E ts \in {TotalSize(lc, lbi)} :
          /\ layers_by_id' = lbi
          /\ image_layers' = il
          /\ layer_count' = lc
          /\ total_size' = ts
          /\ layer_to_image' = lti
          /\ containers_per_image' = cpi
          /\ image_data' = rows
          /\ contrib' = [k \in DOMAIN images |->
                            [shared |-> SharedIds(il[images[k].id], lc),
                             unique |-> UniqueIds(il[images[k].id], lc)]]
          /\ total_reclaimable' = tr
          /\ reclaimable_pct' = ReclaimablePct(tr, ts)
    /\ pc' = "accounted"
    /\ UNCHANGED <<inputs, compvars, error, walk, display>>

\* mutant: get_compressed_sizes is handed the images whose chain is not empty
CompressedSizes_OnlyWalkedImages ==
    /\ pc = "accounted"
    /\ LET r == get_compressed_sizes(
                    SelectSeq(images, LAMBDA i : image_layers[i.id] # <<>>), manifests)
       IN /\ r.error = None
          /\ comp' = [all_layers |-> r.all_layers, layer_usage |-> r.layer_usage,
                      shared_digests |-> r.shared_digests, per_image |-> r.per_image]
          /\ comp_deduplicated' = SumSet(r.all_layers, DOMAIN r.all_layers)
    /\ pc' = "reported"
    /\ UNCHANGED <<inputs, mainvars, error, walk, display>>

\* main's call of get_compressed_sizes, which returns; "reported" is the position
\* after line 288, before the report is printed
CompressedSizes ==
    /\ pc = "accounted"
    /\ LET r == get_compressed_sizes(images, manifests)
       IN /\ r.error = None
          /\ comp' = [all_layers |-> r.all_layers, layer_usage |-> r.layer_usage,
                      shared_digests |-> r.shared_digests, per_image |-> r.per_image]
          /\ comp_deduplicated' = SumSet(r.all_layers, DOMAIN r.all_layers)
    /\ pc' = "reported"
    /\ UNCHANGED <<inputs, mainvars, error, walk, display>>

\* main's call of get_compressed_sizes, which raises: nothing catches it
CompressedSizesRaises ==
    /\ pc = "accounted"
    /\ LET r == get_compressed_sizes(images, manifests)
       IN /\ r.error # None
          /\ error' = r.error
    /\ pc' = "crashed"
    /\ UNCHANGED <<inputs, mainvars, compvars, walk, display>>

\* walk_image_layers: the loop body runs once
WalkStep ==
    /\ pc = "walk"
    /\ WalkCond(walk)
    /\ walk' = WalkBody(walk, layers_by_id)
    /\ UNCHANGED <<pc, inputs, mainvars, compvars, error, display>>

\* walk_image_layers: the loop ends and the function returns layers_walked
WalkReturn ==
    /\ pc = "walk"
    /\ ~WalkCond(walk)
    /\ pc' = "walked"
    /\ UNCHANGED <<inputs, mainvars, compvars, error, walk, display>>

\* get_image_display_name called on the image and returning
DisplayName ==
    /\ pc = "name"
    /\ display' = get_image_display_name(images[1])
    /\ pc' = "named"
    /\ UNCHANGED <<inputs, mainvars, compvars, error, walk>>

-----------------------------------------------------------------------------
(* Inputs *)

\* a layer record of SpecWalk: the walk reads no size
PlainLayer(id, parent) ==
    [id |-> id, parent |-> parent, diff_size |-> JNull, uncompress_size |-> JAbsent]

\* The layer records of Spec, their size fields in one shape per id: both fields
\* set (diff-size wins), uncompress_size alone, diff-size alone or neither field.
SizeFields(id) ==
    CASE id = "A" -> {<<JNum(1), JNum(8)>>}
      [] id = "B" -> {<<JNull, JNum(2)>>}
      [] OTHER    -> {<<JNum(4), JAbsent>>, <<JNull, JAbsent>>}

\* The parents of the layer records of Spec: chains, a shared base, the cycle
\* A -> B -> A, and (a record being left out) dangling parents. SpecWalk takes
\* the walk through every parent map.
ParentChoices(id) ==
    CASE id = "A" -> {None, "B"}
      [] id = "B" -> {None, "A"}
      [] OTHER    -> {None, "A", "B"}

LayerRecords(id) ==
    {[id |-> id, parent |-> p, diff_size |-> f[1], uncompress_size |-> f[2]] :
        p \in ParentChoices(id), f \in SizeFields(id)}

IdOrder == <<"A", "B", "C">>

\* layers.json holding one record for each id of S, in the order of IdOrder
RECURSIVE StoresFrom(_, _)
StoresFrom(k, S) ==
    IF k > Len(IdOrder) THEN {<<>>}
    ELSE LET rest == StoresFrom(k + 1, S)
         IN IF IdOrder[k] \notin S THEN rest
            ELSE {<<l>> \o r : l \in LayerRecords(IdOrder[k]), r \in rest}

Stores == UNION {StoresFrom(1, S) : S \in SUBSET LayerIds}

ImageRecords == [id : ImageIds, layer : LayerIds \cup {None}]

VolatileRecords == [parent : {None, "A", "B"}]

NoManifests == [id \in ImageIds |-> [kind |-> "missing"]]

GoodEntry(d, n) == [t |-> "object", digest |-> d, size |-> JNum(n)]

\* manifest files for the images of Spec: a well-formed one and an array
FewManifests ==
    {[id \in ImageIds |->
        IF id = "i1"
        THEN [kind |-> "object",
              layers |-> [t |-> "list", v |-> <<GoodEntry("sha256:d1", 1)>>]]
        ELSE [kind |-> "array"]]}

\* the entries of the manifests of SpecCompressed: well-formed ones (a digest
\* with two sizes, a second digest, an entry without digest and size), a JSON
\* string, and an entry whose size is a JSON string
ManifestEntries ==
    {GoodEntry("sha256:d1", 1), GoodEntry("sha256:d1", 2), GoodEntry("sha256:d2", 4),
     [t |-> "object", digest |-> NoKey, size |-> JAbsent],
     [t |-> "str"],
     [t |-> "object", digest |-> "sha256:d1", size |-> JStr]}

\* layers lists with an entry whose digest is a JSON null: alone, and beside an
\* entry without the key
NullDigestLists ==
    {<<[t |-> "object", digest |-> None, size |-> JNum(3)]>>,
     <<[t |-> "object", digest |-> None, size |-> JNum(3)],
       [t |-> "object", digest |-> NoKey, size |-> JNum(5)]>>,
     <<[t |-> "object", digest |-> NoKey, size |-> JNum(5)]>>}

\* what a manifest path of SpecCompressed may hold
ManifestFiles ==
    {[kind |-> "missing"], [kind |-> "invalid"], [kind |-> "falsy"], [kind |-> "array"],
     [kind |-> "object", layers |-> JAbsent], [kind |-> "object", layers |-> JNull]}
    \cup {[kind |-> "object", layers |-> [t |-> "list", v |-> v]] :
             v \in BoundedSeq(ManifestEntries, MaxEntries) \cup NullDigestLists}

\* the variables main has not yet assigned
Unassigned ==
    /\ layer_count = EmptyMap
    /\ image_layers = EmptyMap
    /\ total_size = 0
    /\ layer_to_image = EmptyMap
    /\ containers_per_image = EmptyMap
    /\ image_data = <<>>
    /\ contrib = <<>>
    /\ total_reclaimable = 0
    /\ reclaimable_pct = [num |-> 0, den |-> 1]
    /\ comp = NoComp
    /\ comp_deduplicated = 0
    /\ error = None
    /\ display = NoDisplay

MainStart ==
    /\ pc = "start"
    /\ layers_by_id = EmptyMap
    /\ walk = WalkInit([layer |-> None])
    /\ Unassigned

\* a store without manifest files, or images with manifest files and no layers
Init ==
    /\ images \in BoundedSeq(ImageRecords, MaxImages)
    /\ \/ /\ layers \in Stores
          /\ volatile_layers \in BoundedSeq(VolatileRecords, MaxVolatile)
          /\ manifests = NoManifests
       \/ /\ layers = <<>>
          /\ volatile_layers = <<>>
          /\ manifests \in FewManifests
    /\ MainStart

Next == MainNoImages \/ Main \/ CompressedSizes \/ CompressedSizesRaises

Spec == Init /\ [][Next]_vars

\* images whose manifest paths hold any of ManifestFiles, in a store without layers
InitCompressed ==
    /\ images \in BoundedSeq([id : ImageIds, layer : {None}], MaxImages)
    /\ layers = <<>>
    /\ volatile_layers = <<>>
    /\ manifests \in [ImageIds -> ManifestFiles]
    /\ MainStart

SpecCompressed == InitCompressed /\ [][Next]_vars

\* The snapshots of SpecSnapshot: layers and manifest files together. The
\* stores hold A and B, in a chain, side by side or in the cycle A -> B -> A,
\* or nothing; a manifest path holds no file, a well-formed manifest or an
\* array.
SnapshotStores == {<<>>} \cup StoresFrom(1, {"A", "B"})

SnapshotFiles ==
    {[kind |-> "missing"],
     [kind |-> "object",
      layers |-> [t |-> "list", v |-> <<GoodEntry("sha256:d1", 1), GoodEntry("sha256:d2", 4)>>]],
     [kind |-> "array"]}

InitSnapshot ==
    /\ images \in BoundedSeq([id : ImageIds, layer : {"A", "B", None}], MaxImages)
    /\ layers \in SnapshotStores
    /\ volatile_layers \in BoundedSeq(VolatileRecords, MaxVolatile)
    /\ manifests \in [ImageIds -> SnapshotFiles]
    /\ MainStart

SpecSnapshot == InitSnapshot /\ [][Next]_vars

\* The snapshots of SpecTie: up to MaxTied image records whose top layers are
\* A and B, so that two records can have one top layer beside a third record.
InitTie ==
    /\ images \in BoundedSeq([id : ImageIds, layer : {"A", "B"}], MaxTied)
    /\ layers \in SnapshotStores
    /\ volatile_layers \in BoundedSeq(VolatileRecords, MaxVolatile)
    /\ manifests \in {NoManifests} \cup FewManifests
    /\ MainStart

SpecTie == InitTie /\ [][Next]_vars

\* The names of SpecDisplay: every string of at most MaxName symbols, and the
\* digest references r@sha256: and r@sha256:a of every such string r without "@"
Names ==
    BoundedSeq(NameChars, MaxName)
    \cup {r \o DigestMark \o h : r \in BoundedSeq(NameChars \ {"@"}, MaxName),
                                  h \in {<<>>, <<"a">>}}

\* the name lists: none, one name, or a short name followed by a second name
NameLists ==
    {<<>>} \cup {<<n>> : n \in Names}
    \cup {<<n, <<"a", ":", "a">>>> : n \in BoundedSeq(NameChars, 1)}

\* get_image_display_name(image) called on one image
InitDisplay ==
    /\ images \in {<<[id |-> "i1", layer |-> None, names |-> ns]>> : ns \in NameLists}
    /\ layers = <<>>
    /\ volatile_layers = <<>>
    /\ manifests = NoManifests
    /\ pc = "name"
    /\ layers_by_id = EmptyMap
    /\ walk = WalkInit([layer |-> None])
    /\ Unassigned

NextDisplay == DisplayName

SpecDisplay == InitDisplay /\ [][NextDisplay]_vars

\* walk_image_layers(image, layers_by_id) called on one image and on the lookup
\* map of any layers.json of at most MaxLayers records
InitWalk ==
    /\ layers \in BoundedSeq({PlainLayer(id, p) : id \in LayerIds, p \in LayerIds \cup {None}},
                              MaxLayers)
    /\ images \in {<<[id |-> "i1", layer |-> t]>> : t \in LayerIds \cup {None}}
    /\ volatile_layers = <<>>
    /\ manifests = NoManifests
    /\ pc = "walk"
    /\ layers_by_id = LayersById(layers)
    /\ walk = WalkInit(images[1])
    /\ Unassigned

NextWalk == WalkStep \/ WalkReturn

\* the interpreter runs the loop on: a step that can be taken is taken
SpecWalk == InitWalk /\ [][NextWalk]_vars /\ WF_vars(NextWalk)

-----------------------------------------------------------------------------
(* Properties *)

\* main has computed its report
AfterMain == pc \in {"accounted", "reported", "crashed"}

\* the chain walked from the top layer of the k-th image record
OwnChain(k) == walk_image_layers(images[k], LayersById(layers))

\* the number of image records whose own chain holds layer l
RefCount(l) == Cardinality({k \in DOMAIN images : l \in Range(OwnChain(k))})

\* the size of layer l, read from layers.json
SizeOfId(l) == LayerSize(LayersById(layers)[l])

\* the sum of the sizes of the layers of chain that satisfy Keep
SumWhere(chain, Keep(_)) ==
    SumSeq([k \in DOMAIN SelectSeq(chain, Keep) |-> SizeOfId(SelectSeq(chain, Keep)[k])])

\* C1: total_store_bytes is the sum of the sizes of the distinct layer ids in
\* the union of all images' walked chains, each layer counted once however
\* many chains hold it.
C1_TotalCountsEachLayerOnce ==
    AfterMain =>
        LET union == UNION {Range(OwnChain(k)) : k \in DOMAIN images}
        IN total_size = SumSet([l \in union |-> SizeOfId(l)], union)

\* C1 witness: two images share a base layer of positive size and each adds a
\* layer of its own; the total is less than the sum of the two image sizes.
C1_Witness ==
    /\ pc = "accounted"
    /\ Len(images) = 2
    /\ \E l \in DOMAIN layer_count : layer_count[l] = 2 /\ SizeOfId(l) > 0
    /\ image_data[1].unique_size > 0
    /\ image_data[2].unique_size > 0
    /\ total_size < image_data[1].size + image_data[2].size

walkInv ==
    /\ NoDuplicates(walk.layers_walked)
    /\ Len(walk.layers_walked) <= Cardinality(DOMAIN layers_by_id)
    /\ Cardinality(walk.visited) <= Cardinality(DOMAIN layers_by_id) + 1
    /\ Range(walk.layers_walked) \subseteq walk.visited
    /\ ( /\ images[1].layer \in {"A", "B"}
         /\ {"A", "B"} \subseteq DOMAIN layers_by_id
         /\ layers_by_id["A"].parent = "B"
         /\ layers_by_id["B"].parent = "A" ) => Len(walk.layers_walked) <= 2

\* C2: walk_image_layers terminates for every image and layer map, cyclic
\* parent links included: the loop returns, having run at most one pass per
\* entry of layers_by_id plus one; the list holds no layer id twice and at
\* most as many ids as layers_by_id has entries, and at most 2 on the cycle
\* A -> B -> A.
C2_WalkTerminates == []walkInv /\ <>(pc = "walked")

\* C2 witness: the walk has returned from a cycle entered above the top layer
\* (C -> A -> B -> A), with all three layers walked once.
C2_Witness ==
    /\ pc = "walked"
    /\ images[1].layer = "C"
    /\ walk.layers_walked = <<"C", "A", "B">>
    /\ walk.layer_id = "A"

\* C3: for every image of the report, image_bytes = shared_bytes + unique_bytes.
C3_SizeIsSharedPlusUnique ==
    AfterMain =>
        \A k \in DOMAIN image_data :
            image_data[k].size = image_data[k].shared_size + image_data[k].unique_size

\* C3 witness: a reported image with shared and with unique bytes.
C3_Witness ==
    /\ pc = "accounted"
    /\ \E k \in DOMAIN image_data :
          image_data[k].shared_size > 0 /\ image_data[k].unique_size > 0

\* C4 (as claimed): for every image record, shared_bytes is the sum of the
\* sizes of the layers of the chain walked from that record's top layer whose
\* reference count is > 1, and unique_bytes the sum over the layers of that
\* chain whose reference count is 1.
C4_BytesFromOwnChain ==
    AfterMain =>
        \A k \in DOMAIN images :
            /\ image_data[k].shared_size = SumWhere(OwnChain(k), LAMBDA l : RefCount(l) > 1)
            /\ image_data[k].unique_size = SumWhere(OwnChain(k), LAMBDA l : RefCount(l) = 1)

\* C5 (as claimed): a layer in the walked chain of exactly one image is added
\* to no image's shared_bytes, and to the unique_bytes of that image only.
C5_SingleOwnerLayerIsUnique ==
    AfterMain =>
        \A l \in LayerIds :
            RefCount(l) = 1 =>
                \A k \in DOMAIN images :
                    /\ l \notin Range(contrib[k].shared)
                    /\ l \in Range(contrib[k].unique) => l \in Range(OwnChain(k))

\* C6: reclaimable_bytes of an image is its unique_bytes when it has no active
\* container and 0 when it has one; total_reclaimable is the sum of
\* reclaimable_bytes over the images.
C6_Reclaimable ==
    AfterMain =>
        /\ \A k \in DOMAIN image_data :
              /\ image_data[k].containers = 0 =>
                    image_data[k].reclaimable = image_data[k].unique_size
              /\ image_data[k].containers > 0 => image_data[k].reclaimable = 0
        /\ total_reclaimable =
              SumSeq([k \in DOMAIN image_data |-> image_data[k].reclaimable])

\* C6 witness: an image with a container and unique bytes beside an image
\* without container and with unique bytes.
C6_Witness ==
    /\ pc = "accounted"
    /\ \E j, k \in DOMAIN image_data :
          /\ image_data[j].containers > 0 /\ image_data[j].unique_size > 0
          /\ image_data[k].containers = 0 /\ image_data[k].unique_size > 0

\* C7: walk_image_layers returns the maximal resolvable prefix of the parent
\* chain, top layer first: element 0 is the top layer, each next element the
\* parent of the one before; the list ends with the layer whose parent is
\* None, absent from layers_by_id (the dangling id is left out) or already
\* walked; it is empty only when the top layer is None or does not resolve;
\* no error is raised.
C7_WalkIsResolvablePrefix ==
    pc = "walked" =>
        LET r == walk.layers_walked
            top == images[1].layer
        IN /\ error = None
           /\ Range(r) \subseteq DOMAIN layers_by_id
           /\ r = <<>> <=> (top = None \/ top \notin DOMAIN layers_by_id)
           /\ r # <<>> => r[1] = top
           /\ \A k \in 1..(Len(r) - 1) : r[k + 1] = layers_by_id[r[k]].parent
           /\ r # <<>> =>
                 LET p == layers_by_id[r[Len(r)]].parent
                 IN p = None \/ p \notin DOMAIN layers_by_id \/ p \in Range(r)

\* C7 witness: a walk of two layers that ended at a dangling parent.
C7_Witness ==
    /\ pc = "walked"
    /\ Len(walk.layers_walked) = 2
    /\ layers_by_id[walk.layers_walked[2]].parent # None
    /\ layers_by_id[walk.layers_walked[2]].parent \notin DOMAIN layers_by_id

\* the byte values of the rows main reports for the images imgs
BytesReport(imgs) ==
    LET lbi == LayersById(layers)
        wl  == WalkedLayers(imgs, lbi)
        il  == ImageLayers(imgs, wl)
        lc  == LayerCount(wl)
        cpi == ContainersPerImage(volatile_layers, LayerToImage(imgs))
    IN [k \in DOMAIN imgs |->
          LET row == ImageRow(imgs[k], il, lc, lbi, cpi)
          IN <<row.size, row.shared_size, row.unique_size, row.reclaimable>>]

Without(s, k) == SubSeq(s, 1, k - 1) \o SubSeq(s, k + 1, Len(s))

\* C8 (as claimed): an image whose top layer is None or does not resolve is
\* reported with image_bytes = shared_bytes = unique_bytes = 0, the run goes
\* on, and every other image is reported with the bytes it has without that
\* image.
C8_UnresolvedTopIsZero ==
    AfterMain =>
        \A k \in DOMAIN images :
            OwnChain(k) = <<>> =>
                /\ image_data[k].size = 0
                /\ image_data[k].shared_size = 0
                /\ image_data[k].unique_size = 0
                /\ LET rest == BytesReport(Without(images, k))
                       all  == BytesReport(images)
                   IN \A j \in DOMAIN rest : rest[j] = all[IF j < k THEN j ELSE j + 1]

\* the counter of image id in containers_per_image (a defaultdict)
ContainerCount(id) ==
    IF id \in DOMAIN containers_per_image THEN containers_per_image[id] ELSE 0

\* the id of the last image record whose top layer is t
LastImageWithTop(t) ==
    images[CHOOSE k \in DOMAIN images :
              images[k].layer = t /\ \A j \in DOMAIN images : images[j].layer = t => j <= k].id

\* C9 (as claimed): each volatile layer record increments the counter of the
\* last image whose top layer equals its parent, and of no other image; a
\* record without parent, or whose parent is no image's top layer, changes no
\* counter.
C9_ContainerResolution ==
    AfterMain =>
        \A id \in ImageIds :
            ContainerCount(id) =
                Cardinality({k \in DOMAIN volatile_layers :
                    /\ volatile_layers[k].parent # None
                    /\ \E j \in DOMAIN images : images[j].layer = volatile_layers[k].parent
                    /\ LastImageWithTop(volatile_layers[k].parent) = id})

\* a manifest of the expected shape: a record with a list of {digest, size} entries
WellFormed(manifest) ==
    /\ manifest.kind = "object"
    /\ manifest.layers.t = "list"
    /\ \A k \in DOMAIN manifest.layers.v :
          /\ manifest.layers.v[k].t = "object"
          /\ manifest.layers.v[k].size.t \in {"num", "absent"}

\* C10 (as claimed): get_compressed_sizes raises on no missing or malformed
\* manifest; an image without a well-formed manifest adds nothing to the
\* totals, and the images with one are accounted.
C10_CompressedNeverFails ==
    /\ pc # "crashed"
    /\ error = None
    /\ pc = "reported" =>
          /\ \A k \in DOMAIN comp.per_image :
                comp.per_image[k].layers # <<>> => WellFormed(manifests[comp.per_image[k].id])
          /\ \A k \in DOMAIN images :
                WellFormed(manifests[images[k].id]) =>
                    \E j \in DOMAIN comp.per_image : comp.per_image[j].id = images[k].id


-----------------------------------------------------------------------------
(* Properties of the compressed accounting *)

\* the k-th image record has a manifest whose entries are accounted
HasManifest(k) == manifests[images[k].id].kind = "object"

\* the entries of the manifest of the k-th image record, as the file lists them
EntriesOf(k) ==
    IF HasManifest(k) /\ manifests[images[k].id].layers.t = "list"
    THEN manifests[images[k].id].layers.v
    ELSE <<>>

\* every key all_layers and layer_usage can have
DigestKeys == Digests \cup {"", None}

\* the digest and the size of a well-formed entry, as lines 166 and 167 read them
EntryDigest(e) == IF e.digest = NoKey THEN "" ELSE e.digest
EntrySize(e) == IF e.size.t = "num" THEN e.size.v ELSE 0

\* the image records whose manifest lists digest d
ListedBy(d) ==
    {k \in DOMAIN images : \E j \in DOMAIN EntriesOf(k) : EntryDigest(EntriesOf(k)[j]) = d}

\* every digest some manifest lists
ListedDigests == {d \in DigestKeys : ListedBy(d) # {}}

RECURSIVE EntriesUpTo(_)
\* the entries of the manifests of the first k image records, in the order read
EntriesUpTo(k) == IF k = 0 THEN <<>> ELSE EntriesUpTo(k - 1) \o EntriesOf(k)

\* the size of the last entry read for digest d
LastSizeOf(d) ==
    LET all == EntriesUpTo(Len(images))
        last == CHOOSE j \in DOMAIN all :
                    /\ EntryDigest(all[j]) = d
                    /\ \A i \in DOMAIN all : EntryDigest(all[i]) = d => i <= j
    IN EntrySize(all[last])

\* the naive sum of the per-image compressed totals
NaiveCompressed == SumSeq([j \in DOMAIN comp.per_image |-> comp.per_image[j].compressed])

\* C11 (as claimed): a digest is in shared_digests if and only if the
\* manifests of more than one image list it; a digest that one image's
\* manifest lists, even more than once, is not shared.
C11_SharedIffListedByTwoImages ==
    pc = "reported" =>
        \A d \in DigestKeys :
            d \in comp.shared_digests <=> Cardinality(ListedBy(d)) > 1

\* C12: each image's compressed_total is the raw sum of the sizes of all
\* entries of its own manifest, and deduplicated_compressed_total is the sum,
\* over the distinct digests, of the size of the last entry read for the
\* digest (images in list order, entries in manifest order).
C12_CompressedTotals ==
    pc = "reported" =>
        LET read == SelectSeq([k \in DOMAIN images |-> k], HasManifest)
        IN /\ Len(comp.per_image) = Len(read)
           /\ \A j \in DOMAIN read :
                 /\ comp.per_image[j].id = images[read[j]].id
                 /\ comp.per_image[j].compressed =
                       SumSeq([i \in DOMAIN EntriesOf(read[j]) |->
                                  EntrySize(EntriesOf(read[j])[i])])
           /\ comp_deduplicated =
                 SumSet([d \in ListedDigests |-> LastSizeOf(d)], ListedDigests)

\* C12 witness: two images list one digest with two sizes; the first image
\* lists it twice and counts it twice, the total counts the later size once.
C12_Witness ==
    /\ pc = "reported"
    /\ Len(images) = 2
    /\ Len(comp.per_image) = 2
    /\ comp.per_image[1].layers = <<[digest |-> "sha256:d1", size |-> 2],
                                    [digest |-> "sha256:d1", size |-> 2]>>
    /\ comp.per_image[1].compressed = 4
    /\ comp.per_image[2].layers = <<[digest |-> "sha256:d1", size |-> 1]>>
    /\ comp_deduplicated = 1

\* C13: with non-negative manifest sizes, deduplicated_compressed_bytes is at
\* most the naive sum of the per-image compressed totals, and less than it
\* when the manifests of two images list one digest with a positive size.
C13_DeduplicatedAtMostNaive ==
    pc = "reported" =>
        /\ comp_deduplicated <= NaiveCompressed
        /\ (\E d \in DigestKeys : \E j, k \in DOMAIN images :
               /\ j # k
               /\ \E i \in DOMAIN EntriesOf(j) :
                     EntryDigest(EntriesOf(j)[i]) = d /\ EntrySize(EntriesOf(j)[i]) > 0
               /\ \E i \in DOMAIN EntriesOf(k) :
                     EntryDigest(EntriesOf(k)[i]) = d /\ EntrySize(EntriesOf(k)[i]) > 0)
           => comp_deduplicated < NaiveCompressed

\* C13 witness: an image with two layers, one of them also in the manifest of
\* the other image; the deduplicated total is less than the naive sum.
C13_Witness ==
    /\ pc = "reported"
    /\ Len(comp.per_image) = 2
    /\ comp.per_image[1].id # comp.per_image[2].id
    /\ comp.per_image[1].layers = <<[digest |-> "sha256:d1", size |-> 1],
                                    [digest |-> "sha256:d2", size |-> 4]>>
    /\ comp.per_image[2].layers = <<[digest |-> "sha256:d1", size |-> 1]>>
    /\ NaiveCompressed = 6
    /\ comp_deduplicated = 5

\* C14: the compressed accounting is independent of the uncompressed domain,
\* and the uncompressed accounting of the manifests. Two runs on the same
\* images and manifests report the same per-image compressed totals, shared
\* digests and deduplicated total whatever their layers and volatile layers,
\* because each run reports the value of an expression over images and
\* manifests alone; two runs on the same images, layers and volatile layers
\* compute the same total, shared, unique and reclaimable bytes whatever
\* their manifests, because each run computes the value of an expression over
\* these three alone.
C14_DomainsIndependent ==
    /\ pc = "reported" =>
          LET read == SelectSeq([k \in DOMAIN images |-> k], HasManifest)
              all  == EntriesUpTo(Len(images))
          IN /\ [j \in DOMAIN comp.per_image |-> comp.per_image[j].compressed]
                   = [j \in DOMAIN read |->
                         SumSeq([i \in DOMAIN EntriesOf(read[j]) |->
                                    EntrySize(EntriesOf(read[j])[i])])]
             /\ comp.shared_digests =
                   {d \in DigestKeys :
                       Cardinality({i \in DOMAIN all : EntryDigest(all[i]) = d}) > 1}
             /\ comp_deduplicated =
                   SumSet([d \in ListedDigests |-> LastSizeOf(d)], ListedDigests)
    /\ AfterMain =>
          LET union == UNION {Range(OwnChain(k)) : k \in DOMAIN images}
              bytes == BytesReport(images)
          IN /\ total_size = SumSet([l \in union |-> SizeOfId(l)], union)
             /\ [k \in DOMAIN image_data |->
                    <<image_data[k].size, image_data[k].shared_size,
                      image_data[k].unique_size, image_data[k].reclaimable>>] = bytes
             /\ total_reclaimable = SumSeq([k \in DOMAIN bytes |-> bytes[k][4]])

\* C14 witness: a run has reported compressed totals for two images, one of
\* which has a chain of two layers and a container and the other no chain.
C14_Witness ==
    /\ pc = "reported"
    /\ Len(comp.per_image) = 2
    /\ comp.shared_digests # {}
    /\ Len(image_data) = 2
    /\ Len(image_layers[images[1].id]) = 2
    /\ image_layers[images[2].id] = <<>>
    /\ image_data[1].containers = 1
    /\ total_size > 0

\* C15: reclaimable_pct is total_reclaimable / total_store_bytes * 100 when
\* total_store_bytes > 0 and 0 when total_store_bytes = 0; no quotient with
\* divisor 0 is formed.
C15_ReclaimablePct ==
    AfterMain =>
        /\ reclaimable_pct.den # 0
        /\ total_size > 0 =>
              reclaimable_pct = [num |-> total_reclaimable * 100, den |-> total_size]
        /\ total_size = 0 => reclaimable_pct.num = 0

\* C15 witness: an image with a walked chain whose layers all have size 0, so
\* that total_store_bytes is 0 and the percentage is 0.
C15_Witness ==
    /\ pc = "accounted"
    /\ \E k \in DOMAIN images : image_layers[images[k].id] # <<>>
    /\ total_size = 0
    /\ reclaimable_pct.num = 0

-----------------------------------------------------------------------------
(* Properties of the display name *)

\* C16: display-name resolution uses the first name and splits it on the last
\* colon: when the text after that colon holds a slash the whole name is the
\* repository and the tag is "latest"; otherwise the text before the colon is
\* the repository and the text after it the tag; a name without colon has tag
\* "latest"; an empty name list gives ("<none>", "<none>"). Stated of the
\* names that hold no digest reference "@sha256:".
C16_DisplayName ==
    pc = "named" =>
        LET names == images[1].names
        IN IF names = <<>> THEN display = <<NoName, NoName>>
           ELSE LET n == names[1]
                    colons == {i \in DOMAIN n : n[i] = ":"}
                    last == CHOOSE c \in colons : \A i \in colons : i <= c
                    before == SubSeq(n, 1, last - 1)
                    after == SubSeq(n, last + 1, Len(n))
                IN Contains(n, DigestMark)
                   \/ IF colons = {} THEN display = <<n, Latest>>
                      ELSE IF "/" \in Range(after) THEN display = <<n, Latest>>
                      ELSE display = <<before, after>>

\* C16 witness: "registry.io:5000/app", whose last colon is followed by a
\* slash, has given ("registry.io:5000/app", "latest").
C16_Witness ==
    /\ pc = "named"
    /\ images[1].names = << <<"a", ":", "a", "/", "a">> >>
    /\ display = << <<"a", ":", "a", "/", "a">>, Latest >>

\* C18: for every name R@sha256:H where R holds no "@", the function returns
\* the pair it returns for the name R alone, and neither the repository nor
\* the tag holds the digest.
C18_DigestStripped ==
    (pc = "named" /\ images[1].names # <<>>) =>
        LET n == images[1].names[1]
            r == BeforeFirst(n, "@")
        IN (Len(n) >= Len(r) + 3 /\ SubSeq(n, Len(r) + 1, Len(r) + 3) = DigestMark) =>
              /\ display = get_image_display_name([names |-> <<r>>])
              /\ "@" \notin Range(display[1]) \cup Range(display[2])

\* C18 witness: "registry.io:5000/app@sha256:abc" has given
\* ("registry.io:5000/app", "latest").
C18_Witness ==
    /\ pc = "named"
    /\ images[1].names = << <<"a", ":", "a", "/", "a", "@", "sha256", ":", "a">> >>
    /\ display = << <<"a", ":", "a", "/", "a">>, Latest >>

-----------------------------------------------------------------------------
(* Properties of the reference counts and of the reclaimable bytes *)

\* C17: for every layer id L, layer_reference_count[L] is the number of image
\* records whose walked chain holds L, one increment per image; every layer
\* reachable from an image's top layer has a count >= 1; every key of
\* layer_reference_count is a key of layers_by_id, so the size lookups of the
\* total and of the per-image loop find their layer.
C17_LayerCount ==
    AfterMain =>
        /\ DOMAIN layer_count = {l \in LayerIds : RefCount(l) >= 1}
        /\ \A l \in DOMAIN layer_count : layer_count[l] = RefCount(l)
        /\ \A k \in DOMAIN images : \A l \in Range(OwnChain(k)) :
              l \in DOMAIN layer_count /\ layer_count[l] >= 1
        /\ DOMAIN layer_count \subseteq DOMAIN layers_by_id
        /\ \A id \in DOMAIN image_layers :
              Range(image_layers[id]) \subseteq DOMAIN layers_by_id \cap DOMAIN layer_count

\* C17 witness: two images with the same chain of two layers, each layer
\* counted twice.
C17_Witness ==
    /\ pc = "accounted"
    /\ Len(images) = 2
    /\ OwnChain(1) = OwnChain(2)
    /\ Len(OwnChain(1)) = 2
    /\ \A l \in Range(OwnChain(1)) : layer_count[l] = 2

\* C19 (as claimed): with non-negative layer sizes, total_reclaimable is at
\* most the sum of the sizes of the layers whose reference count is exactly
\* 1, hence at most total_store_bytes, and reclaimable_pct lies between 0 and
\* 100.
C19_ReclaimableAtMostUnique ==
    AfterMain =>
        LET single == {l \in LayerIds : RefCount(l) = 1}
        IN /\ total_reclaimable <= SumSet([l \in single |-> SizeOfId(l)], single)
           /\ total_reclaimable <= total_size
           /\ 0 <= reclaimable_pct.num
           /\ reclaimable_pct.num <= 100 * reclaimable_pct.den

\* s with its j-th and k-th elements exchanged
Swap(s, j, k) == [s EXCEPT ![j] = s[k], ![k] = s[j]]

\* total_reclaimable of the run on the images imgs
TotalReclaimableOf(imgs) ==
    LET bytes == BytesReport(imgs) IN SumSeq([k \in DOMAIN bytes |-> bytes[k][4]])

\* C20 (as claimed): whenever two images with different ids have the same
\* top layer id, both have unique_bytes = 0 and reclaimable_bytes = 0, and
\* total_reclaimable is the same with the two images exchanged in the list.
C20_SameTopNothingReclaimable ==
    AfterMain =>
        \A j, k \in DOMAIN images :
            (images[j].id # images[k].id /\ images[j].layer = images[k].layer) =>
                /\ image_data[j].unique_size = 0
                /\ image_data[j].reclaimable = 0
                /\ image_data[k].unique_size = 0
                /\ image_data[k].reclaimable = 0
                /\ TotalReclaimableOf(Swap(images, j, k)) = total_reclaimable

-----------------------------------------------------------------------------
(* What holds of the refuted statements on the inputs that avoid the slips *)

\* no two image records have the same id
DistinctImageIds == \A j, k \in DOMAIN images : images[j].id = images[k].id => j = k

\* every image record has a top layer
EveryImageHasTop == \A k \in DOMAIN images : images[k].layer # None

\* C4, C5 and C8 hold when the image ids are distinct: image_layers, keyed by
\* image id, then holds each record's own chain.
OwnChainWhenIdsDistinct ==
    DistinctImageIds =>
        /\ C4_BytesFromOwnChain
        /\ C5_SingleOwnerLayerIsUnique
        /\ C8_UnresolvedTopIsZero

\* The first half of C5 holds for every input: a layer in one chain only is
\* added to no shared_size.
SingleOwnerLayerNeverShared ==
    AfterMain =>
        \A l \in LayerIds :
            RefCount(l) = 1 => \A k \in DOMAIN images : l \notin Range(contrib[k].shared)

\* C9 holds when every image has a top layer: None is then no key of
\* layer_to_image.
ContainerResolutionWhenTopsSet == EveryImageHasTop => C9_ContainerResolution

\* C19 and C20 hold when the image ids are distinct.
ReclaimableWhenIdsDistinct ==
    DistinctImageIds => C19_ReclaimableAtMostUnique /\ C20_SameTopNothingReclaimable

\* no manifest lists a digest twice
NoDigestListedTwice ==
    \A k \in DOMAIN images : \A i, j \in DOMAIN EntriesOf(k) :
        EntryDigest(EntriesOf(k)[i]) = EntryDigest(EntriesOf(k)[j]) => i = j

\* C11 holds when no manifest lists a digest twice: the entries counted for a
\* digest are then one for each image that lists it.
SharedDigestsWhenListedOnce ==
    (pc = "reported" /\ NoDigestListedTwice) => C11_SharedIffListedByTwoImages

=============================================================================
